---- MODULE Spec2Model ----
(***************************************************************************)
(* State-machine model of the 2do todo service (internal/todo): the gin    *)
(* handlers (handler.go), the service layer (service.go) and the SQL       *)
(* repository (repo.go) over the `todos` table.  A request is handled in   *)
(* steps: the handler's validation up to the service call, then one step   *)
(* per SQL statement the repository issues, so that requests interleave    *)
(* exactly where the database lets them.                                   *)
(***************************************************************************)
EXTENDS Integers, FiniteSets, Sequences, TLC

\* ------------------------------------------------------------------ bounds
MaxId == 2          \* rows the table ever gets (AUTO_INCREMENT ids 1..MaxId)
MaxClock == 3       \* mutating statements executed (each takes a fresh timestamp)

Procs == {1, 2}     \* request slots (goroutines serving requests)
Ids == 1..MaxId
Texts == {"a", ""}     \* a text and the empty text

\* ------------------------------------------------------- HTTP status codes
StatusOK == 200
StatusCreated == 201
StatusNoContent == 204
StatusBadRequest == 400
StatusNotFound == 404
StatusUnsupportedMediaType == 415
StatusUnprocessableEntity == 422
StatusInternalServerError == 500

\* ------------------------------------------------------------ data model
\* A Go pointer field of TodoInput (*string / *bool), also the SQL parameter
\* it is bound to: nil is SQL NULL.
NilStr == [nil |-> TRUE, v |-> ""]
NilBool == [nil |-> TRUE, v |-> FALSE]
PtrStr(s) == [nil |-> FALSE, v |-> s]
PtrBool(b) == [nil |-> FALSE, v |-> b]

TodoInput(t, c) == [Text |-> t, Completed |-> c]
EmptyInput == TodoInput(NilStr, NilBool)

\* A row of the `todos` table; live = FALSE is "no row with this id".
NoRow == [live |-> FALSE, text |-> NilStr, completed |-> NilBool,
          created_at |-> 0, updated_at |-> 0]
Row(t, c, ca, ua) == [live |-> TRUE, text |-> t, completed |-> c,
                      created_at |-> ca, updated_at |-> ua]

\* The Todo struct a handler serialises; NilTodo is the nil *Todo.
NilTodo == [nil |-> TRUE, ID |-> 0, Text |-> "", Completed |-> FALSE,
            CreatedAt |-> 0, UpdatedAt |-> 0]
Todo(id, r) == [nil |-> FALSE, ID |-> id, Text |-> r.text.v, Completed |-> r.completed.v,
                CreatedAt |-> r.created_at, UpdatedAt |-> r.updated_at]

\* ------------------------------------------------------- request bodies
\* A JSON member value: absent, null, a string, a boolean or a number.
JAbsent == [kind |-> "absent", s |-> "", b |-> FALSE]
JNull == [kind |-> "null", s |-> "", b |-> FALSE]
JNum == [kind |-> "number", s |-> "", b |-> FALSE]
JStr(x) == [kind |-> "string", s |-> x, b |-> FALSE]
JBool(x) == [kind |-> "bool", s |-> "", b |-> x]

\* A request body: json = FALSE is a body that is no JSON object (empty,
\* truncated, an array ...).  Members: "text", "completed", the key "Text"
\* (a different name that encoding/json matches to the text field, which it
\* does case-insensitively) and "foo" (a name matching no field).
\* more = TRUE: the object is followed by further content (`{...} xyz`).
Body(t, c, T, f) == [json |-> TRUE, text |-> t, completed |-> c, Text |-> T, foo |-> f,
                     more |-> FALSE]
NotJson == [json |-> FALSE, text |-> JAbsent, completed |-> JAbsent,
            Text |-> JAbsent, foo |-> JAbsent, more |-> FALSE]
Trailing(b) == [b EXCEPT !.more = TRUE]

TextMembers == {JAbsent, JNull} \cup {JStr(x) : x \in Texts}
CompletedMembers == {JAbsent, JNull, JBool(TRUE), JBool(FALSE)}

\* Every presence combination of the two recognised members ...
PlainBodies == {Body(t, c, JAbsent, JAbsent) : t \in TextMembers, c \in CompletedMembers}
\* ... and the bodies that are malformed in some other way or are followed
\* by further content.
OddBodies ==
    { NotJson,
      Body(JNum, JBool(TRUE), JAbsent, JAbsent),
      Body(JStr("a"), JStr("a"), JAbsent, JAbsent),
      Body(JStr("a"), JBool(TRUE), JAbsent, JStr("a")),
      Body(JAbsent, JAbsent, JAbsent, JStr("a")),
      Body(JStr("a"), JBool(TRUE), JAbsent, JNull),
      Body(JAbsent, JBool(TRUE), JStr("a"), JAbsent),
      Body(JStr("a"), JBool(FALSE), JStr(""), JAbsent),
      Body(JAbsent, JAbsent, JNull, JAbsent),
      Trailing(Body(JStr("a"), JBool(TRUE), JAbsent, JAbsent)),
      Trailing(Body(JAbsent, JAbsent, JAbsent, JAbsent)) }
Bodies == PlainBodies \cup OddBodies

\* The :id path parameter: whether it is an unsigned decimal numeral (digits),
\* whether that numeral is above 2^32 - 1 (wide), and its value otherwise;
\* for a wide numeral val is its low 32 bits (2^32 + 1 has val 1).  A path
\* that is no such numeral ("abc", "-1") has digits = FALSE.
PathParam(d, w, n) == [digits |-> d, wide |-> w, val |-> n]
NoPath == PathParam(FALSE, FALSE, 0)
GoodPaths == {PathParam(TRUE, FALSE, n) : n \in 0..MaxId}
BadPaths == {NoPath, PathParam(TRUE, TRUE, 1)}
PathParams == GoodPaths \cup BadPaths

\* The requests with a body (POST, PUT, PATCH): content type, path, body.
\* Every body is sent as JSON to id 1, the bodies without a flaw to every id,
\* and a flawless and a flawed body with a bad path or another content type.
Request(ct, path, body) == [ctype |-> ct, path |-> path, body |-> body]
FullBody == Body(JStr("a"), JBool(TRUE), JAbsent, JAbsent)
NullBody == Body(JNull, JBool(TRUE), JAbsent, JAbsent)
CleanBodies ==
    {b \in PlainBodies : b.text.kind # "null" /\ b.completed.kind # "null"}
BodyRequests ==
    {Request("application/json", path, b) : path \in GoodPaths, b \in CleanBodies}
    \cup {Request("application/json", PathParam(TRUE, FALSE, 1), b) : b \in Bodies}
    \cup {Request("application/json", path, b) : path \in BadPaths, b \in {FullBody, NullBody}}
    \cup {Request("text/plain", path, b) :
            path \in {PathParam(TRUE, FALSE, 1), NoPath}, b \in {FullBody, NullBody, NotJson}}

\* ------------------------------------------------------------- errors
ErrNil == "nil"
ErrNotFound == "ErrNotFound"
ErrInputInvalid == "ErrInputInvalid"
ErrMultipleRowsAffected == "ErrMultipleRowsAffected"
ErrNoRows == "sql.ErrNoRows"
ErrScan == "scan error"          \* Scan of a NULL column into string / bool
ErrDriver == "driver error"      \* any other failure of a statement
ErrDeadlineExceeded == "context deadline exceeded"   \* the request's 2 s deadline fired

\* --------------------------------------------------------- handler.go
\* Faulty variant of ParseUint: parsed in 64 bits, then cut to uint32.
ParseUint_Wraps(path) ==
    IF path.digits
    THEN [err |-> FALSE, val |-> path.val]
    ELSE [err |-> TRUE, val |-> 0]

\* strconv.ParseUint(i, 10, 32) followed by uint32(id)
ParseUint(path) ==
    IF path.digits /\ ~path.wide
    THEN [err |-> FALSE, val |-> path.val]
    ELSE [err |-> TRUE, val |-> 0]

\* decodeIntoInput: the body is bound to a map of raw members; any member
\* that is null is refused; the map is marshalled again (keys sorted: "Text"
\* < "completed" < "foo" < "text") and decoded into TodoInput with
\* DisallowUnknownFields.  err = "" is a nil error.
\* Faulty variant of decodeNullMember: nulls are not looked for.
decodeNullMember_Never(body) == FALSE

decodeNullMember(body) ==
    \E m \in {body.text, body.completed, body.Text, body.foo} : m.kind = "null"

decodeUnknownField(body) == body.foo.kind # "absent"

decodeTypeError(body) ==
    \/ body.text.kind \notin {"absent", "null", "string"}
    \/ body.Text.kind \notin {"absent", "null", "string"}
    \/ body.completed.kind \notin {"absent", "null", "bool"}

decodeStruct(body) ==
    TodoInput(IF body.text.kind = "string" THEN PtrStr(body.text.s)
              ELSE IF body.Text.kind = "string" THEN PtrStr(body.Text.s)
              ELSE NilStr,
              IF body.completed.kind = "bool" THEN PtrBool(body.completed.b)
              ELSE NilBool)

\* ctx.ShouldBindJSON(&raw): gin decodes the first JSON value of the body into
\* the map and does not look at what follows it.
ShouldBindJSON(body) == [err |-> ~body.json, raw |-> [body EXCEPT !.more = FALSE]]

\* json.Marshal(raw): the map's members and nothing else.
Marshal(raw) == raw

\* decoder.More() after decoder.Decode(t), the decoder reading `buf`.
decoderMore(buf) == buf.more

decodeIntoInput(body) ==
    LET bound == ShouldBindJSON(body)
        buf == Marshal(bound.raw)
    IN  IF bound.err THEN [err |-> "invalid json input", in |-> EmptyInput]
        ELSE IF decodeNullMember(bound.raw)
             THEN [err |-> "field cannot be null", in |-> EmptyInput]
        ELSE IF decodeUnknownField(buf) \/ decodeTypeError(buf)
             THEN [err |-> "invalid json input", in |-> EmptyInput]
        ELSE IF decoderMore(buf) THEN [err |-> "invalid json input", in |-> EmptyInput]
        ELSE [err |-> "", in |-> decodeStruct(buf)]

\* What a handler decided before calling the service: a rejection (status,
\* error text) or the arguments of the service call (status = 0).
Reject(status, msg) == [status |-> status, error |-> msg, id |-> 0, in |-> EmptyInput]
Accept(id, in) == [status |-> 0, error |-> "", id |-> id, in |-> in]

\* Faulty variant of isJson: the content type is not looked at.
isJson_Any(ct) == TRUE

isJson(ct) == ct = "application/json"

postMissing(in) == in.Text.nil
\* Faulty variant of putMissing: one of the two fields is enough.
putMissing_Neither(in) == in.Text.nil /\ in.Completed.nil

putMissing(in) == in.Text.nil \/ in.Completed.nil
patchMissing(in) == in.Text.nil /\ in.Completed.nil

\* Faulty variant of postDefault: the default is not applied.
postDefault_Skipped(in) == in

postDefault(in) == IF in.Completed.nil THEN TodoInput(in.Text, PtrBool(FALSE)) ELSE in

postCheck(ct, body) ==
    IF ~isJson(ct)
    THEN Reject(StatusUnsupportedMediaType, "Content-Type must be application/json")
    ELSE LET d == decodeIntoInput(body) IN
         IF d.err # "" THEN Reject(StatusBadRequest, d.err)
         ELSE IF postMissing(d.in)
              THEN Reject(StatusBadRequest, "missing field - provide text field")
         ELSE Accept(0, postDefault(d.in))

putCheck(ct, path, body) ==
    IF ~isJson(ct)
    THEN Reject(StatusUnsupportedMediaType, "Content-Type must be application/json")
    ELSE IF ParseUint(path).err THEN Reject(StatusBadRequest, "ID must be an integer")
    ELSE LET d == decodeIntoInput(body) IN
         IF d.err # "" THEN Reject(StatusBadRequest, d.err)
         ELSE IF putMissing(d.in)
              THEN Reject(StatusBadRequest,
                          "missing field - provide both text and completed fields")
         ELSE Accept(ParseUint(path).val, d.in)

patchCheck(ct, path, body) ==
    IF ~isJson(ct)
    THEN Reject(StatusUnsupportedMediaType, "Content-Type must be application/json")
    ELSE IF ParseUint(path).err THEN Reject(StatusBadRequest, "ID must be an integer")
    ELSE LET d == decodeIntoInput(body) IN
         IF d.err # "" THEN Reject(StatusBadRequest, d.err)
         ELSE IF patchMissing(d.in)
              THEN Reject(StatusBadRequest,
                          "text and completed fields missing - provide at least one")
         ELSE Accept(ParseUint(path).val, d.in)

idCheck(path) ==
    IF ParseUint(path).err THEN Reject(StatusBadRequest, "ID must be an integer")
    ELSE Accept(ParseUint(path).val, EmptyInput)

\* The handlers' mapping of the service's error to the response.
Response(status, msg, t) == [status |-> status, error |-> msg, todo |-> t, list |-> {},
                             location |-> 0]
NoResponse == Response(0, "", NilTodo)

getAllResponse(err, todos) ==
    IF err # ErrNil THEN Response(StatusInternalServerError, "unexpected error", NilTodo)
    ELSE [Response(StatusOK, "", NilTodo) EXCEPT !.list = todos]

getByIdResponse(err, t) ==
    IF err = ErrNotFound THEN Response(StatusNotFound, ErrNotFound, NilTodo)
    ELSE IF err # ErrNil THEN Response(StatusInternalServerError, "unexpected error", NilTodo)
    ELSE Response(StatusOK, "", t)

\* Faulty variant of postResponse: no Location header is set.
postResponse_NoLocation(err, t) ==
    IF err = ErrInputInvalid THEN Response(StatusUnprocessableEntity, ErrInputInvalid, NilTodo)
    ELSE IF err # ErrNil THEN Response(StatusInternalServerError, "unexpected error", NilTodo)
    ELSE Response(StatusCreated, "", t)

\* Faulty variant of postResponse: the error's own text is sent.
postResponse_Leaks(err, t) ==
    IF err = ErrInputInvalid THEN Response(StatusUnprocessableEntity, ErrInputInvalid, NilTodo)
    ELSE IF err # ErrNil THEN Response(StatusInternalServerError, err, NilTodo)
    ELSE [Response(StatusCreated, "", t) EXCEPT !.location = t.ID]

postResponse(err, t) ==
    IF err = ErrInputInvalid THEN Response(StatusUnprocessableEntity, ErrInputInvalid, NilTodo)
    ELSE IF err # ErrNil THEN Response(StatusInternalServerError, "unexpected error", NilTodo)
    ELSE [Response(StatusCreated, "", t) EXCEPT !.location = t.ID]

\* Faulty variant of putResponse: not-found is answered as a bad request.
putResponse_NotFoundAsBadRequest(err, t) ==
    IF err = ErrNotFound THEN Response(StatusBadRequest, ErrNotFound, NilTodo)
    ELSE IF err # ErrNil THEN Response(StatusInternalServerError, "unexpected error", NilTodo)
    ELSE Response(StatusOK, "", t)

putResponse(err, t) ==
    IF err = ErrInputInvalid THEN Response(StatusUnprocessableEntity, ErrInputInvalid, NilTodo)
    ELSE IF err = ErrNotFound THEN Response(StatusNotFound, ErrNotFound, NilTodo)
    ELSE IF err # ErrNil THEN Response(StatusInternalServerError, "unexpected error", NilTodo)
    ELSE Response(StatusOK, "", t)

patchResponse(err, t) ==
    IF err = ErrInputInvalid THEN Response(StatusUnprocessableEntity, ErrInputInvalid, NilTodo)
    ELSE IF err = ErrNotFound THEN Response(StatusNotFound, ErrNotFound, NilTodo)
    ELSE IF err # ErrNil THEN Response(StatusInternalServerError, "unexpected error", NilTodo)
    ELSE Response(StatusOK, "", t)

deleteResponse(err) ==
    IF err = ErrNotFound THEN Response(StatusNotFound, ErrNotFound, NilTodo)
    ELSE IF err # ErrNil THEN Response(StatusInternalServerError, "unexpected error", NilTodo)
    ELSE Response(StatusNoContent, "", NilTodo)

handlerResponse(method, err, t) ==
    CASE method = "POST" -> postResponse(err, t)
      [] method = "PUT" -> putResponse(err, t)
      [] method = "PATCH" -> patchResponse(err, t)
      [] method = "DELETE" -> deleteResponse(err)
      [] method = "GET" -> getByIdResponse(err, t)
      [] OTHER -> getAllResponse(err, {})

\* --------------------------------------------------------- service.go
\* The checks a service method makes before it calls the repository.
service_Create(in) == IF in.Text.nil THEN ErrInputInvalid ELSE ErrNil
service_Update(in) == IF in.Text.nil /\ in.Completed.nil THEN ErrInputInvalid ELSE ErrNil

\* ------------------------------------------------------------ repo.go
\* The `todos` table's timestamp columns, kept by the schema: both are set
\* to the statement's time on INSERT, updated_at again on every UPDATE of the
\* row.  Statement times are strictly increasing.
DefaultTimestamp(now) == now
\* Faulty variant of OnUpdateTimestamp: an UPDATE sets updated_at to a time
\* before any row was created.
OnUpdateTimestamp_Earlier(old, now) == 0

\* Faulty variant of OnUpdateTimestamp: an UPDATE leaves updated_at alone.
OnUpdateTimestamp_Kept(old, now) == old

OnUpdateTimestamp(old, now) == now

\* INSERT INTO todos (text, completed) VALUES (?, ?)
InsertRow(in, now) ==
    Row(in.Text, in.Completed, DefaultTimestamp(now), DefaultTimestamp(now))

\* UPDATE todos SET text = IFNULL(?, text), completed = IFNULL(?, completed) WHERE id=?
\* Faulty variant of IFNULL: the parameter is stored even when it is NULL.
IFNULL_Overwrites(param, col) == param

IFNULL(param, col) == IF param.nil THEN col ELSE param
\* Faulty variant of UpdateRow: SET text = ?, completed = ? without IFNULL.
UpdateRow_Sets(row, in, now) ==
    Row(in.Text, in.Completed, row.created_at, OnUpdateTimestamp(row.updated_at, now))

\* Faulty variant of UpdateRow: the row is written anew, created_at included.
UpdateRow_Recreates(row, in, now) ==
    Row(IFNULL(in.Text, row.text), IFNULL(in.Completed, row.completed),
        DefaultTimestamp(now), OnUpdateTimestamp(row.updated_at, now))

\* Faulty variant of UpdateRow: the statement writes the text only.
UpdateRow_TextOnly(row, in, now) ==
    Row(IFNULL(in.Text, row.text), row.completed,
        row.created_at, OnUpdateTimestamp(row.updated_at, now))

UpdateRow(row, in, now) ==
    Row(IFNULL(in.Text, row.text), IFNULL(in.Completed, row.completed),
        row.created_at, OnUpdateTimestamp(row.updated_at, now))

\* Faulty variant of ScanRow: the id column is not scanned.
ScanRow_NoId(id, row) ==
    IF ~row.live THEN [err |-> ErrNoRows, todo |-> NilTodo]
    ELSE IF row.text.nil \/ row.completed.nil THEN [err |-> ErrScan, todo |-> NilTodo]
    ELSE [err |-> ErrNil, todo |-> Todo(0, row)]

\* QueryRowContext(... WHERE id=?).Scan(&t.ID, &t.Text, &t.Completed, ...)
ScanRow(id, row) ==
    IF ~row.live THEN [err |-> ErrNoRows, todo |-> NilTodo]
    ELSE IF row.text.nil \/ row.completed.nil THEN [err |-> ErrScan, todo |-> NilTodo]
    ELSE [err |-> ErrNil, todo |-> Todo(id, row)]

\* What each repository method makes of its statements' results.
\* Faulty variant of sqlrepo_Get: sql.ErrNoRows is passed through.
sqlrepo_Get_Raw(sc) == sc

sqlrepo_Get(sc) ==
    IF sc.err = ErrNoRows THEN [err |-> ErrNotFound, todo |-> NilTodo] ELSE sc

\* Faulty variant of sqlrepo_Create_readback: no row is not-found, as in Get.
sqlrepo_Create_readback_AsGet(sc) ==
    IF sc.err = ErrNoRows THEN [err |-> ErrNotFound, todo |-> NilTodo] ELSE sc

sqlrepo_Create_readback(sc) == sc

\* Faulty variant of sqlrepo_Update_rows: the count is not looked at.
sqlrepo_Update_rows_Ignored(rows) == ErrNil

sqlrepo_Update_rows(rows) == IF rows > 1 THEN ErrMultipleRowsAffected ELSE ErrNil

\* Faulty variant of sqlrepo_Update_readback: sql.ErrNoRows is passed through.
sqlrepo_Update_readback_Raw(sc) == sc

sqlrepo_Update_readback(sc) ==
    IF sc.err = ErrNoRows THEN [err |-> ErrNotFound, todo |-> NilTodo] ELSE sc

\* Faulty variant of sqlrepo_Delete_rows: zero rows affected is not an error.
sqlrepo_Delete_rows_ZeroOk(rows) ==
    IF rows > 1 THEN ErrMultipleRowsAffected ELSE ErrNil

sqlrepo_Delete_rows(rows) ==
    IF rows = 0 THEN ErrNotFound
    ELSE IF rows # 1 THEN ErrMultipleRowsAffected
    ELSE ErrNil

\* RowsAffected as the driver reports it: the rows the statement changed, or,
\* when the store is broken (its id column no longer unique), more than one.
RowCounts(actual, broken) == IF broken THEN {actual, 3} ELSE {actual}

\* ------------------------------------------------------------------ state
VARIABLES
    store,      \* the todos table: id -> row
    nextId,     \* the table's AUTO_INCREMENT counter
    clock,      \* time of the last mutating statement
    req,        \* per slot: the request being handled and where its handler is
    resp,       \* per slot: the response written
    prev        \* the request answered last, when it was a successful create, update or delete

vars == <<store, nextId, clock, req, resp, prev>>

RowAt(id) == IF id \in Ids THEN store[id] ELSE NoRow

IdleReq == [pc |-> "idle", method |-> "", ctype |-> "", path |-> NoPath,
            body |-> NotJson, id |-> 0, in |-> EmptyInput,
            svc |-> 0,          \* calls of a Service method
            stmts |-> 0,        \* SQL statements issued
            rows |-> 0,         \* RowsAffected of the mutating statement
            fault |-> FALSE,    \* a statement failed or reported an anomalous count
            pre |-> NoRow,      \* the target row when the request arrived
            lastId |-> 0,       \* LastInsertId
            muts |-> 0,         \* INSERT / UPDATE / DELETE statements issued
            failed |-> 0,       \* which statement failed (0: none)
            cause |-> ErrNil,   \* the error the failed statement returned
            err |-> ErrNil]     \* the error the service returned to the handler

NoPrev == [method |-> "", id |-> 0, in |-> EmptyInput, status |-> 0, todo |-> NilTodo,
           pre |-> NoRow]

Init ==
    /\ store = [i \in Ids |-> NoRow]
    /\ nextId = 1
    /\ clock = 0
    /\ req = [p \in Procs |-> IdleReq]
    /\ resp = [p \in Procs |-> NoResponse]
    /\ prev = NoPrev

Mutating(r) == r.pc \in {"exec"} /\ r.method \in {"POST", "PUT", "PATCH"}
IsPost(r) == r.pc = "exec" /\ r.method = "POST"
MutatingInFlight == Cardinality({q \in Procs : Mutating(req[q])})
PostsInFlight == Cardinality({q \in Procs : IsPost(req[q])})

\* The handler of `method` runs up to its call of the service: `v` is what
\* its validation decided, `svcErr` what the service method's own check says.
Arrive(p, method, ct, path, body, v, svcErr) ==
    /\ req[p].pc = "idle"
    /\ LET r == [IdleReq EXCEPT !.method = method, !.ctype = ct, !.path = path,
                                !.body = body, !.id = v.id, !.in = v.in,
                                !.pre = RowAt(v.id)]
       IN  IF v.status # 0
           THEN /\ req' = [req EXCEPT ![p] = [r EXCEPT !.pc = "done"]]
                /\ resp' = [resp EXCEPT ![p] = Response(v.status, v.error, NilTodo)]
           ELSE IF svcErr # ErrNil
           THEN /\ req' = [req EXCEPT ![p] = [r EXCEPT !.pc = "done", !.svc = 1,
                                                       !.err = svcErr]]
                /\ resp' = [resp EXCEPT ![p] = handlerResponse(method, svcErr, NilTodo)]
           ELSE /\ req' = [req EXCEPT ![p] = [r EXCEPT !.pc = "exec", !.svc = 1]]
                /\ resp' = [resp EXCEPT ![p] = NoResponse]
    /\ UNCHANGED <<store, nextId, clock, prev>>

getAll(p) ==
    Arrive(p, "GET_ALL", "", NoPath, NotJson, Accept(0, EmptyInput), ErrNil)

getById(p, paths) ==
    \E path \in paths :
        Arrive(p, "GET", "", path, NotJson, idCheck(path), ErrNil)

post(p, requests) ==
    /\ clock + MutatingInFlight < MaxClock
    /\ nextId + PostsInFlight <= MaxId
    /\ \E rq \in {r \in requests : r.path = PathParam(TRUE, FALSE, 1)} :
        LET v == postCheck(rq.ctype, rq.body)
        IN  Arrive(p, "POST", rq.ctype, NoPath, rq.body, v, service_Create(v.in))

put(p, requests) ==
    /\ clock + MutatingInFlight < MaxClock
    /\ \E rq \in requests :
        LET v == putCheck(rq.ctype, rq.path, rq.body)
        IN  Arrive(p, "PUT", rq.ctype, rq.path, rq.body, v, service_Update(v.in))

patch(p, requests) ==
    /\ clock + MutatingInFlight < MaxClock
    /\ \E rq \in requests :
        LET v == patchCheck(rq.ctype, rq.path, rq.body)
        IN  Arrive(p, "PATCH", rq.ctype, rq.path, rq.body, v, service_Update(v.in))

delete(p, paths) ==
    \E path \in paths :
        Arrive(p, "DELETE", "", path, NotJson, idCheck(path), ErrNil)

\* The statements of the repository methods, one step each.  The step that
\* ends a request also runs the service's and the handler's error mapping.
Finish(p, r, err, response) ==
    /\ req' = [req EXCEPT ![p] = [r EXCEPT !.pc = "done", !.err = err]]
    /\ resp' = [resp EXCEPT ![p] = response]

\* sqlrepo.List: SELECT ... FROM todos
sqlrepo_List(p) ==
    /\ req[p].pc = "exec" /\ req[p].method = "GET_ALL"
    /\ LET live == {i \in Ids : store[i].live}
           scans == {ScanRow(i, store[i]) : i \in live}
           err == IF \E sc \in scans : sc.err # ErrNil THEN ErrScan ELSE ErrNil
           todos == IF err = ErrNil THEN {sc.todo : sc \in scans} ELSE {}
       IN  Finish(p, [req[p] EXCEPT !.stmts = @ + 1], err, getAllResponse(err, todos))
    /\ UNCHANGED <<store, nextId, clock, prev>>

\* sqlrepo.Get: SELECT ... WHERE id=?
sqlrepo_Get_Query(p) ==
    /\ req[p].pc = "exec" /\ req[p].method = "GET"
    /\ LET got == sqlrepo_Get(ScanRow(req[p].id, RowAt(req[p].id)))
       IN  Finish(p, [req[p] EXCEPT !.stmts = @ + 1], got.err,
                  getByIdResponse(got.err, got.todo))
    /\ UNCHANGED <<store, nextId, clock, prev>>

\* sqlrepo.Create: the INSERT, then LastInsertId
sqlrepo_Create_Exec(p) ==
    /\ req[p].pc = "exec" /\ req[p].method = "POST"
    /\ nextId \in Ids
    /\ store' = [store EXCEPT ![nextId] = InsertRow(req[p].in, clock + 1)]
    /\ nextId' = nextId + 1
    /\ clock' = clock + 1
    /\ req' = [req EXCEPT ![p] = [@ EXCEPT !.pc = "readback", !.stmts = @ + 1,
                                           !.muts = @ + 1,
                                           !.rows = 1, !.lastId = nextId]]
    /\ UNCHANGED <<resp, prev>>

\* sqlrepo.Create: the read-back SELECT of the inserted id
sqlrepo_Create_Query(p) ==
    /\ req[p].pc = "readback" /\ req[p].method = "POST"
    /\ LET got == sqlrepo_Create_readback(ScanRow(req[p].lastId, RowAt(req[p].lastId)))
       IN  Finish(p, [req[p] EXCEPT !.stmts = @ + 1], got.err,
                  postResponse(got.err, got.todo))
    /\ UNCHANGED <<store, nextId, clock, prev>>

\* sqlrepo.Update: the UPDATE and the check of RowsAffected
sqlrepo_Update_Exec(p, broken) ==
    /\ req[p].pc = "exec" /\ req[p].method \in {"PUT", "PATCH"}
    /\ LET id == req[p].id
           hit == RowAt(id).live
           actual == IF hit THEN 1 ELSE 0
       IN  /\ store' = IF hit THEN [store EXCEPT ![id] = UpdateRow(@, req[p].in, clock + 1)]
                       ELSE store
           /\ clock' = IF hit THEN clock + 1 ELSE clock
           /\ \E rows \in RowCounts(actual, broken) :
                LET r == [req[p] EXCEPT !.stmts = @ + 1, !.muts = @ + 1, !.rows = rows,
                                        !.fault = (rows # actual)]
                    err == sqlrepo_Update_rows(rows)
                IN  IF err # ErrNil
                    THEN Finish(p, r, err, handlerResponse(r.method, err, NilTodo))
                    ELSE /\ req' = [req EXCEPT ![p] = [r EXCEPT !.pc = "readback"]]
                         /\ UNCHANGED resp
    /\ UNCHANGED <<nextId, prev>>

\* sqlrepo.Update: the read-back SELECT of the updated id
sqlrepo_Update_Query(p) ==
    /\ req[p].pc = "readback" /\ req[p].method \in {"PUT", "PATCH"}
    /\ LET got == sqlrepo_Update_readback(ScanRow(req[p].id, RowAt(req[p].id)))
       IN  Finish(p, [req[p] EXCEPT !.stmts = @ + 1], got.err,
                  handlerResponse(req[p].method, got.err, got.todo))
    /\ UNCHANGED <<store, nextId, clock, prev>>

\* Faulty variant of sqlrepo_Delete_Exec: the DELETE has no WHERE clause.
sqlrepo_Delete_Exec_All(p, broken) ==
    /\ req[p].pc = "exec" /\ req[p].method = "DELETE"
    /\ LET id == req[p].id
           hit == RowAt(id).live
           actual == IF hit THEN 1 ELSE 0
       IN  /\ store' = IF hit THEN [i \in Ids |-> NoRow] ELSE store
           /\ \E rows \in RowCounts(actual, broken) :
                Finish(p, [req[p] EXCEPT !.stmts = @ + 1, !.muts = @ + 1, !.rows = rows,
                                         !.fault = (rows # actual)],
                       sqlrepo_Delete_rows(rows), deleteResponse(sqlrepo_Delete_rows(rows)))
    /\ UNCHANGED <<nextId, clock, prev>>

\* sqlrepo.Delete: the DELETE and the check of RowsAffected
sqlrepo_Delete_Exec(p, broken) ==
    /\ req[p].pc = "exec" /\ req[p].method = "DELETE"
    /\ LET id == req[p].id
           hit == RowAt(id).live
           actual == IF hit THEN 1 ELSE 0
       IN  /\ store' = IF hit THEN [store EXCEPT ![id] = NoRow] ELSE store
           /\ \E rows \in RowCounts(actual, broken) :
                Finish(p, [req[p] EXCEPT !.stmts = @ + 1, !.muts = @ + 1, !.rows = rows,
                                         !.fault = (rows # actual)],
                       sqlrepo_Delete_rows(rows), deleteResponse(sqlrepo_Delete_rows(rows)))
    /\ UNCHANGED <<nextId, clock, prev>>

\* Any statement may fail instead: the connection is lost, or the deadline
\* that ContextTimeout put on the request's context fires while the statement
\* is in flight and ExecContext / QueryRowContext gives up.  The statement has
\* no effect and the repository returns the error it got (`return nil, err`).
StatementErrors == {ErrDriver, ErrDeadlineExceeded}
IsMutation(r) == r.pc = "exec" /\ r.method \in {"POST", "PUT", "PATCH", "DELETE"}

\* Faulty variant of sqlrepo_execErr: every failure is returned as one error.
sqlrepo_execErr_Generic(err) == ErrDriver

sqlrepo_execErr(err) == err

\* Faulty variant of StatementFails: the statement is issued again.
StatementFails_Retries(p) ==
    /\ req[p].pc \in {"exec", "readback"}
    /\ req[p].failed = 0
    /\ \E e \in StatementErrors :
            req' = [req EXCEPT ![p] = [@ EXCEPT !.stmts = @ + 1, !.fault = TRUE,
                                     !.muts = IF IsMutation(req[p]) THEN @ + 1 ELSE @,
                                     !.failed = req[p].stmts + 1, !.cause = e]]
    /\ UNCHANGED <<store, nextId, clock, prev, resp>>

StatementFails(p) ==
    /\ req[p].pc \in {"exec", "readback"}
    /\ \E e \in StatementErrors :
            Finish(p, [req[p] EXCEPT !.stmts = @ + 1, !.fault = TRUE,
                                     !.muts = IF IsMutation(req[p]) THEN @ + 1 ELSE @,
                                     !.failed = req[p].stmts + 1, !.cause = e],
                   sqlrepo_execErr(e),
                   handlerResponse(req[p].method, sqlrepo_execErr(e), NilTodo))
    /\ UNCHANGED <<store, nextId, clock, prev>>

Alone(p) == \A q \in Procs \ {p} : req[q].pc = "idle"

\* The response has been sent: the slot is free for the next request.
Digest(r, rs) ==
    IF r.method \in {"PUT", "PATCH", "DELETE"} /\ rs.status \in {StatusOK, StatusNoContent}
    THEN [method |-> r.method, id |-> r.id, in |-> r.in, status |-> rs.status,
          todo |-> rs.todo, pre |-> r.pre]
    ELSE IF r.method = "POST" /\ rs.status = StatusCreated
    THEN [method |-> r.method, id |-> rs.location, in |-> r.in, status |-> rs.status,
          todo |-> rs.todo, pre |-> r.pre]
    ELSE NoPrev

Return(p) ==
    /\ req[p].pc = "done"
    /\ req' = [req EXCEPT ![p] = IdleReq]
    /\ resp' = [resp EXCEPT ![p] = NoResponse]
    /\ prev' = IF Alone(p) THEN Digest(req[p], resp[p]) ELSE NoPrev
    /\ UNCHANGED <<store, nextId, clock>>

\* Requests served one at a time (in slot 1); statements may fail and the
\* store may be broken.
Serial(p) == p = 1 /\ Alone(p)

Next ==
    \E p \in Procs :
        \/ Serial(p) /\ getAll(p)
        \/ Serial(p) /\ getById(p, PathParams)
        \/ Serial(p) /\ post(p, BodyRequests)
        \/ Serial(p) /\ put(p, BodyRequests)
        \/ Serial(p) /\ patch(p, BodyRequests)
        \/ Serial(p) /\ delete(p, PathParams)
        \/ sqlrepo_List(p)
        \/ sqlrepo_Get_Query(p)
        \/ sqlrepo_Create_Exec(p)
        \/ sqlrepo_Create_Query(p)
        \/ sqlrepo_Update_Exec(p, TRUE)
        \/ sqlrepo_Update_Query(p)
        \/ sqlrepo_Delete_Exec(p, TRUE)
        \/ StatementFails(p)
        \/ Return(p)

Spec == Init /\ [][Next]_vars

\* Mutating requests served concurrently, interleaved statement by statement,
\* over a sound store whose statements succeed.
ConcPaths == {PathParam(TRUE, FALSE, n) : n \in Ids}
ConcRequests(bodies) ==
    {Request("application/json", path, b) : path \in ConcPaths, b \in bodies}
ConcFull == {Body(JStr("a"), JBool(TRUE), JAbsent, JAbsent),
             Body(JStr("b"), JBool(FALSE), JAbsent, JAbsent)}
ConcPartial == {Body(JStr("b"), JAbsent, JAbsent, JAbsent),
                Body(JAbsent, JBool(TRUE), JAbsent, JAbsent)}
ConcNew == {Body(JStr("a"), JAbsent, JAbsent, JAbsent)}

ConcNext ==
    \E p \in Procs :
        \/ post(p, ConcRequests(ConcNew))
        \/ put(p, ConcRequests(ConcFull))
        \/ patch(p, ConcRequests(ConcPartial))
        \/ delete(p, ConcPaths)
        \/ sqlrepo_Create_Exec(p)
        \/ sqlrepo_Create_Query(p)
        \/ sqlrepo_Update_Exec(p, FALSE)
        \/ sqlrepo_Update_Query(p)
        \/ sqlrepo_Delete_Exec(p, FALSE)
        \/ Return(p)

ConcSpec == Init /\ [][ConcNext]_vars

\* ------------------------------------------------------------ properties
BodyMethods == {"POST", "PUT", "PATCH"}
Answered(p) == req[p].pc = "done"
TextGiven(b) == b.json /\ b.text.kind = "string"
CompletedGiven(b) == b.json /\ b.completed.kind = "bool"
NullGiven(b) == b.json /\ (b.text.kind = "null" \/ b.completed.kind = "null")
PathOk(r) == r.method = "POST" \/ ~ParseUint(r.path).err

\* C1: a POST whose body has a text hands the service an input whose completed
\* is false when the body had no completed member and the member's value when
\* it had one; the row inserted and the record answered (201, which a request
\* whose statements succeed always gets) carry that same value.
C1_CreateCompleted ==
    \A p \in Procs :
        LET r == req[p]
            want == IF r.body.completed.kind = "absent" THEN FALSE ELSE r.body.completed.b
        IN  (r.method = "POST" /\ TextGiven(r.body) /\ r.svc = 1) =>
                /\ r.in.Completed = PtrBool(want)
                /\ r.pc = "readback" => RowAt(r.lastId).completed = PtrBool(want)
                /\ (Answered(p) /\ ~r.fault) =>
                        /\ resp[p].status = StatusCreated
                        /\ resp[p].todo.Completed = want
                        /\ RowAt(resp[p].todo.ID).completed = PtrBool(want)

C1_Witness ==
    \E p \in Procs :
        /\ req[p].method = "POST" /\ Answered(p)
        /\ TextGiven(req[p].body) /\ req[p].body.completed.kind = "absent"
        /\ resp[p].status = StatusCreated
        /\ resp[p].todo.Completed = FALSE

\* C2: a PATCH that gives exactly one of text/completed, to an id that has a
\* row, leaves the row's other column as it was when the request arrived, once
\* the UPDATE has run and whatever the later statements do; the record answered
\* by the PATCH (200, when no statement fails) and by a GET of the same id that
\* follows it directly carries that same value of the other field.
OnlyText(in) == ~in.Text.nil /\ in.Completed.nil
OnlyCompleted(in) == in.Text.nil /\ ~in.Completed.nil

C2_PartialUpdateFrame ==
    \A p \in Procs :
        LET r == req[p] IN
        /\ (r.method = "PATCH" /\ r.svc = 1 /\ r.pre.live /\ r.pc \in {"readback", "done"}) =>
                /\ OnlyText(r.in) =>
                        /\ RowAt(r.id).completed = r.pre.completed
                        /\ (Answered(p) /\ ~r.fault) =>
                                /\ resp[p].status = StatusOK
                                /\ resp[p].todo.Completed = r.pre.completed.v
                /\ OnlyCompleted(r.in) =>
                        /\ RowAt(r.id).text = r.pre.text
                        /\ (Answered(p) /\ ~r.fault) =>
                                /\ resp[p].status = StatusOK
                                /\ resp[p].todo.Text = r.pre.text.v
        /\ (r.method = "GET" /\ Answered(p) /\ ~r.fault /\ PathOk(r)
                /\ prev.method = "PATCH" /\ prev.id = r.id) =>
                /\ OnlyText(prev.in) =>
                        /\ resp[p].status = StatusOK
                        /\ resp[p].todo.Completed = prev.pre.completed.v
                /\ OnlyCompleted(prev.in) =>
                        /\ resp[p].status = StatusOK
                        /\ resp[p].todo.Text = prev.pre.text.v

\* A GET answers the text "a" unchanged after a PATCH that set only completed,
\* to a value the row did not have.
C2_Witness ==
    \E p \in Procs :
        /\ req[p].method = "GET" /\ Answered(p) /\ resp[p].status = StatusOK
        /\ prev.method = "PATCH" /\ prev.id = req[p].id /\ OnlyCompleted(prev.in)
        /\ prev.pre.completed # prev.in.Completed
        /\ resp[p].todo.Completed = prev.in.Completed.v
        /\ resp[p].todo.Text = prev.pre.text.v

\* C3: a POST, PUT or PATCH whose body has text or completed explicitly null
\* is answered at once, without a call of the service and without a statement
\* sent to the store: with 400 when the request is JSON (the error being
\* "field cannot be null" when the path id parses), with 415 otherwise; no
\* step of such a request changes the table.  It makes no difference that the
\* other field is validly present or that the null one is optional.
NullRequest(r) == r.method \in BodyMethods /\ NullGiven(r.body)

C3_NullRejected ==
    \A p \in Procs :
        LET r == req[p] IN
        NullRequest(r) =>
            /\ Answered(p) /\ r.svc = 0 /\ r.stmts = 0
            /\ resp[p].todo.nil
            /\ resp[p].status = IF isJson(r.ctype) THEN StatusBadRequest
                                ELSE StatusUnsupportedMediaType
            /\ (isJson(r.ctype) /\ PathOk(r)) => resp[p].error = "field cannot be null"

C3_NullLeavesStore ==
    [][(\E p \in Procs : NullRequest(req[p]) \/ NullRequest(req'[p])) =>
            /\ store' = store
            /\ nextId' = nextId
            /\ clock' = clock]_vars

C3_NullNeverStored == []C3_NullRejected /\ C3_NullLeavesStore

\* A PATCH to a stored row with text null and completed validly given has
\* been answered 400.
C3_Witness ==
    \E p \in Procs :
        /\ req[p].method = "PATCH" /\ Answered(p) /\ isJson(req[p].ctype)
        /\ req[p].body.text.kind = "null" /\ req[p].body.completed.kind = "bool"
        /\ RowAt(ParseUint(req[p].path).val).live
        /\ resp[p].status = StatusBadRequest
        /\ resp[p].error = "field cannot be null"

\* C4: a PUT, PATCH or DELETE that passed validation and whose id had no row
\* when it arrived is answered 404 "todo not found" with no record, provided
\* its statements ran without fault, and no step of it (faulty or not) changes
\* the table: the same rows with the same values before and after.
Targeted(r) == r.method \in {"PUT", "PATCH", "DELETE"} /\ r.svc = 1
Missing(r) == Targeted(r) /\ ~r.pre.live

C4_MissingAnswered ==
    \A p \in Procs :
        (Missing(req[p]) /\ Answered(p) /\ ~req[p].fault) =>
            /\ resp[p].status = StatusNotFound
            /\ resp[p].error = ErrNotFound
            /\ resp[p].todo.nil
            /\ req[p].rows = 0

C4_MissingLeavesStore ==
    [][\A p \in Procs :
            ((Missing(req[p]) \/ Missing(req'[p])) /\ req'[p] # req[p]) =>
                store' = store]_vars

C4_NotFoundUnchanged == []C4_MissingAnswered /\ C4_MissingLeavesStore

\* A PUT to an id without a row has been answered 404 while another row is
\* stored.
C4_Witness ==
    \E p \in Procs :
        /\ req[p].method = "PUT" /\ Missing(req[p]) /\ Answered(p)
        /\ req[p].stmts = 2
        /\ resp[p].status = StatusNotFound
        /\ \E i \in Ids : store[i].live

\* C5: a DELETE of an id that has a row is answered 204 with no body and the
\* row is gone; the same DELETE issued again directly after it, nothing else
\* served in between, is answered 404 "todo not found" (statements running
\* without fault in both).
C5_DeleteTwice ==
    \A p \in Procs :
        LET r == req[p] IN
        (r.method = "DELETE" /\ r.svc = 1 /\ Answered(p) /\ ~r.fault) =>
            /\ r.pre.live =>
                    /\ resp[p].status = StatusNoContent
                    /\ resp[p].todo.nil /\ resp[p].error = ""
                    /\ ~RowAt(r.id).live
            /\ (prev.method = "DELETE" /\ prev.id = r.id) =>
                    /\ prev.status = StatusNoContent /\ prev.pre.live
                    /\ resp[p].status = StatusNotFound
                    /\ resp[p].error = ErrNotFound

\* The second of two DELETEs of the same id has been answered 404.
C5_Witness ==
    \E p \in Procs :
        /\ req[p].method = "DELETE" /\ Answered(p)
        /\ prev.method = "DELETE" /\ prev.id = req[p].id /\ prev.status = StatusNoContent
        /\ prev.pre.live
        /\ resp[p].status = StatusNotFound

\* C6: a PUT giving text and completed to an id that has a row, issued again
\* with the same input directly after it was answered 200, is answered 200
\* again with the record carrying the input's values, the same created-at and
\* an updated-at strictly later than the one the first answer carried, although
\* the second UPDATE changes no column value (statements running without
\* fault).
SamePutAgain(r) ==
    /\ r.method = "PUT" /\ r.svc = 1
    /\ prev.method = "PUT" /\ prev.id = r.id /\ prev.in = r.in

C7_MultipleRows ==
    \A p \in Procs :
        LET r == req[p] IN
        (Targeted(r) /\ r.rows > 1) =>
            /\ Answered(p)
            /\ r.err = ErrMultipleRowsAffected
            /\ r.stmts = 1
            /\ resp[p].todo.nil
            /\ resp[p].status = StatusInternalServerError
            /\ resp[p].status \notin {StatusOK, StatusNoContent, StatusNotFound}

\* The UPDATE of a PUT to a stored row reported 3 rows and the PUT has been
\* answered 500.
C7_Witness ==
    \E p \in Procs :
        /\ req[p].method = "PUT" /\ req[p].rows = 3 /\ req[p].pre.live
        /\ req[p].err = ErrMultipleRowsAffected
        /\ resp[p].status = StatusInternalServerError

\* C8: when the UPDATE of a PUT or PATCH reports zero rows affected,
\* repo.Update returns ErrNotFound and no record, and the request is answered
\* 404: never 200 with a record.
ZeroRowsUpdate(r) ==
    /\ r.method \in {"PUT", "PATCH"} /\ r.svc = 1
    /\ r.pc = "done" /\ ~r.fault /\ r.rows = 0

C8_ZeroRowsNotFound ==
    \A p \in Procs :
        ZeroRowsUpdate(req[p]) =>
            /\ req[p].err = ErrNotFound
            /\ resp[p].todo.nil
            /\ resp[p].status = StatusNotFound

\* C9: a JSON request with a parsable path whose body is a JSON object with
\* no member but text (a string) and completed (a boolean), either of them
\* possibly absent, reaches the service iff the operation's policy holds: POST
\* needs text, PUT needs text and completed, PATCH needs at least one of them.
\* Every other presence combination is answered 400 with the operation's
\* missing-field message, the service not called and no statement issued.
WellFormed(r) ==
    /\ r.method \in BodyMethods /\ isJson(r.ctype) /\ PathOk(r)
    /\ r.body.json /\ ~r.body.more
    /\ r.body.text.kind \in {"absent", "string"}
    /\ r.body.completed.kind \in {"absent", "bool"}
    /\ r.body.Text.kind = "absent" /\ r.body.foo.kind = "absent"

Policy(r) ==
    CASE r.method = "POST" -> TextGiven(r.body)
      [] r.method = "PUT" -> TextGiven(r.body) /\ CompletedGiven(r.body)
      [] r.method = "PATCH" -> TextGiven(r.body) \/ CompletedGiven(r.body)

MissingMessage(method) ==
    CASE method = "POST" -> "missing field - provide text field"
      [] method = "PUT" -> "missing field - provide both text and completed fields"
      [] method = "PATCH" -> "text and completed fields missing - provide at least one"

C9_PresencePolicy ==
    \A p \in Procs :
        LET r == req[p] IN
        WellFormed(r) =>
            /\ Policy(r) <=> r.svc = 1
            /\ Policy(r) =>
                    /\ r.in.Text.nil = ~TextGiven(r.body)
                    /\ r.method # "POST" => r.in.Completed.nil = ~CompletedGiven(r.body)
                    /\ Answered(p) => resp[p].status # StatusBadRequest
            /\ ~Policy(r) =>
                    /\ Answered(p) /\ r.svc = 0 /\ r.stmts = 0
                    /\ resp[p].status = StatusBadRequest
                    /\ resp[p].error = MissingMessage(r.method)

\* A PUT with text alone has been refused with 400.
C9_Witness ==
    \E p \in Procs :
        /\ WellFormed(req[p]) /\ req[p].method = "PUT"
        /\ TextGiven(req[p].body) /\ ~CompletedGiven(req[p].body)
        /\ Answered(p) /\ req[p].svc = 0
        /\ resp[p].status = StatusBadRequest

\* C10: a JSON POST, PUT or PATCH (path parsable) whose body is a JSON object
\* with a member named otherwise than "text" and "completed" is answered 400
\* and the service is not called, whatever text and completed are.
OtherNameGiven(b) == b.json /\ (b.Text.kind # "absent" \/ b.foo.kind # "absent")

C10_UnknownFieldRejected ==
    \A p \in Procs :
        LET r == req[p] IN
        (r.method \in BodyMethods /\ isJson(r.ctype) /\ PathOk(r)
            /\ OtherNameGiven(r.body)) =>
                /\ Answered(p) /\ r.svc = 0
                /\ resp[p].status = StatusBadRequest

\* C11: a JSON POST, PUT or PATCH (path parsable) whose body is a JSON object
\* followed by further content is answered 400 and the service is not called.
TrailingRequest(r) ==
    /\ r.method \in BodyMethods /\ isJson(r.ctype) /\ PathOk(r)
    /\ r.body.json /\ r.body.more

C11_TrailingRejected ==
    \A p \in Procs :
        TrailingRequest(req[p]) =>
            /\ Answered(p) /\ req[p].svc = 0
            /\ resp[p].status = StatusBadRequest

\* C12: a request answered 400 or 415 has called no Service method and sent
\* no statement to the store; and the other way round, a request calls the
\* service only after its handler's validation accepted it, and sends
\* statements only after calling the service.
Validation(r) ==
    CASE r.method = "POST" -> postCheck(r.ctype, r.body)
      [] r.method = "PUT" -> putCheck(r.ctype, r.path, r.body)
      [] r.method = "PATCH" -> patchCheck(r.ctype, r.path, r.body)
      [] r.method \in {"GET", "DELETE"} -> idCheck(r.path)
      [] OTHER -> Accept(0, EmptyInput)

C12_ValidationFirst ==
    \A p \in Procs :
        LET r == req[p] IN
        /\ (Answered(p) /\ resp[p].status \in {StatusBadRequest, StatusUnsupportedMediaType}) =>
                /\ r.svc = 0 /\ r.stmts = 0
                /\ Validation(r).status = resp[p].status
        /\ r.svc > 0 => Validation(r).status = 0
        /\ r.stmts > 0 => r.svc = 1

\* A PUT without completed to an id that has a row has been answered 400
\* without a call of the service.
C12_Witness ==
    \E p \in Procs :
        /\ req[p].method = "PUT" /\ Answered(p)
        /\ resp[p].status = StatusBadRequest
        /\ RowAt(ParseUint(req[p].path).val).live
        /\ req[p].svc = 0 /\ req[p].stmts = 0

\* C13: a POST, PUT or PATCH whose input carries the empty string as text is
\* refused by the service with ErrInputInvalid and answered 422, no statement
\* having been sent; and no stored row has an empty text.
EmptyText(in) == ~in.Text.nil /\ in.Text.v = ""

C13_EmptyTextRejected ==
    /\ \A p \in Procs :
            LET r == req[p] IN
            (r.method \in BodyMethods /\ r.svc = 1 /\ EmptyText(r.in)) =>
                /\ Answered(p) /\ r.stmts = 0
                /\ r.err = ErrInputInvalid
                /\ resp[p].status = StatusUnprocessableEntity
    /\ \A i \in Ids : store[i].live => store[i].text # PtrStr("")

\* C14: whatever the operation, a request whose service call failed with an
\* error that is neither ErrNotFound nor ErrInputInvalid (a failed statement,
\* a failed read-back, ErrMultipleRowsAffected) is answered with one and the
\* same response: 500, error "unexpected error", no record, no list, no
\* Location; the error's own text is not in it.
OpaqueFailure(r) ==
    r.svc = 1 /\ r.pc = "done" /\ r.err \notin {ErrNil, ErrNotFound, ErrInputInvalid}

C14_OpaqueInternalError ==
    \A p \in Procs :
        OpaqueFailure(req[p]) =>
            /\ resp[p] = Response(StatusInternalServerError, "unexpected error", NilTodo)
            /\ resp[p].error # req[p].err

\* A POST whose INSERT ran and whose read-back failed has been answered 500.
C14_Witness ==
    \E p \in Procs :
        /\ req[p].method = "POST" /\ OpaqueFailure(req[p])
        /\ req[p].stmts = 2 /\ RowAt(req[p].lastId).live
        /\ resp[p].status = StatusInternalServerError
        /\ resp[p].error = "unexpected error"

\* C15: in every state every stored row has a text that is not NULL and a
\* completed that is not NULL, whatever POST, PUT, PATCH and DELETE requests
\* were served (statement failures and anomalous row counts included); in
\* particular no UPDATE sets a column to NULL.
C15_RowsComplete ==
    \A i \in Ids : store[i].live => (~store[i].text.nil /\ ~store[i].completed.nil)

\* A row has been through the UPDATE of a PATCH that gave text alone, and of
\* one that gave completed alone.
C15_Witness ==
    \E p \in Procs :
        /\ req[p].method = "PATCH" /\ Answered(p) /\ resp[p].status = StatusOK
        /\ OnlyText(req[p].in)
        /\ prev.method = "PATCH" /\ prev.id = req[p].id /\ OnlyCompleted(prev.in)
        /\ RowAt(req[p].id).live

\* C16: a PUT or PATCH answered 200 answers a record with the id it was sent
\* to and the created-at the row had when the request arrived, and the row
\* still has that created-at; no step of a PUT or PATCH changes which ids have
\* a row or any row's created_at.
LiveIds(st) == {i \in Ids : st[i].live}

C16_UpdateAnswer ==
    \A p \in Procs :
        LET r == req[p] IN
        (r.method \in {"PUT", "PATCH"} /\ Answered(p) /\ resp[p].status = StatusOK) =>
            /\ r.pre.live
            /\ resp[p].todo.ID = r.id
            /\ resp[p].todo.CreatedAt = r.pre.created_at
            /\ RowAt(r.id).live /\ RowAt(r.id).created_at = r.pre.created_at

C16_UpdateSteps ==
    [][\A p \in Procs :
            (req[p].method \in {"PUT", "PATCH"} /\ req'[p] # req[p]) =>
                /\ LiveIds(store') = LiveIds(store)
                /\ \A i \in Ids : store'[i].created_at = store[i].created_at]_vars

C16_UpdateKeepsIdentity == []C16_UpdateAnswer /\ C16_UpdateSteps

\* A PATCH of a row created at an earlier time has been answered 200 with a
\* later updated-at and the creation time.
C16_Witness ==
    \E p \in Procs :
        /\ req[p].method = "PATCH" /\ Answered(p) /\ resp[p].status = StatusOK
        /\ resp[p].todo.CreatedAt = req[p].pre.created_at
        /\ resp[p].todo.UpdatedAt > resp[p].todo.CreatedAt
        /\ resp[p].todo.ID = 2

\* C17: in every state every stored row has updated_at >= created_at, and the
\* record a POST answers with 201 has updated-at equal to created-at (requests
\* served one after another, so that the read-back sees the row as inserted).
C17_Timestamps ==
    /\ \A i \in Ids : store[i].live => store[i].updated_at >= store[i].created_at
    /\ \A p \in Procs :
            (req[p].method = "POST" /\ Answered(p) /\ resp[p].status = StatusCreated) =>
                /\ resp[p].todo.UpdatedAt = resp[p].todo.CreatedAt
                /\ resp[p].todo.CreatedAt > 0

\* A POST has been answered 201 while another row, updated since its
\* creation, has a later updated_at than created_at.
C17_Witness ==
    \E p \in Procs :
        /\ req[p].method = "POST" /\ Answered(p) /\ resp[p].status = StatusCreated
        /\ resp[p].todo.UpdatedAt = resp[p].todo.CreatedAt
        /\ \E i \in Ids : store[i].live /\ store[i].updated_at > store[i].created_at

\* C18: a PATCH answered 200 that gave a field a value other than the one the
\* row had (completed true on a row whose completed was false, say) answers a
\* record whose updated-at is strictly later than the row's updated_at when
\* the request arrived, and so is the row's; a field the PATCH did not give
\* (the text, say) is as it was.
ChangesValue(r) ==
    \/ ~r.in.Text.nil /\ r.in.Text # r.pre.text
    \/ ~r.in.Completed.nil /\ r.in.Completed # r.pre.completed

C18_PatchAdvancesUpdatedAt ==
    \A p \in Procs :
        LET r == req[p] IN
        (r.method = "PATCH" /\ Answered(p) /\ resp[p].status = StatusOK
            /\ ChangesValue(r)) =>
                /\ resp[p].todo.UpdatedAt > r.pre.updated_at
                /\ RowAt(r.id).updated_at > r.pre.updated_at
                /\ r.in.Text.nil => resp[p].todo.Text = r.pre.text.v
                /\ r.in.Completed.nil => resp[p].todo.Completed = r.pre.completed.v
                /\ ~r.in.Text.nil => resp[p].todo.Text = r.in.Text.v
                /\ ~r.in.Completed.nil => resp[p].todo.Completed = r.in.Completed.v

\* PATCH {completed: true} on a row with text "a" and completed false has been
\* answered 200.
C18_Witness ==
    \E p \in Procs :
        /\ req[p].method = "PATCH" /\ Answered(p) /\ resp[p].status = StatusOK
        /\ req[p].in = TodoInput(NilStr, PtrBool(TRUE))
        /\ req[p].pre.completed = PtrBool(FALSE) /\ req[p].pre.text = PtrStr("a")
        /\ resp[p].todo.Completed /\ resp[p].todo.Text = "a"
        /\ resp[p].todo.UpdatedAt > req[p].pre.updated_at

\* C19: a POST answered 201 answers the record of the row it inserted, with
\* the id the store assigned (a positive one), the input's text and completed,
\* and a Location header /todos/{id} with exactly that id; a POST whose
\* statements ran without fault is answered so.  A GET of that id directly
\* after it answers 200 with a record of the same id, text and completed.
C19_CreateAnswer ==
    \A p \in Procs :
        LET r == req[p] IN
        /\ (r.method = "POST" /\ Answered(p) /\ r.svc = 1 /\ ~r.fault) =>
                resp[p].status = StatusCreated
        /\ (r.method = "POST" /\ Answered(p) /\ resp[p].status = StatusCreated) =>
                /\ ~resp[p].todo.nil
                /\ resp[p].todo.ID = r.lastId /\ resp[p].todo.ID >= 1
                /\ resp[p].location = resp[p].todo.ID
                /\ resp[p].todo.Text = r.in.Text.v
                /\ resp[p].todo.Completed = r.in.Completed.v
        /\ (r.method = "GET" /\ Answered(p) /\ ~r.fault /\ PathOk(r)
                /\ prev.method = "POST" /\ prev.id = r.id) =>
                /\ resp[p].status = StatusOK
                /\ resp[p].todo.ID = prev.todo.ID
                /\ resp[p].todo.Text = prev.todo.Text
                /\ resp[p].todo.Completed = prev.todo.Completed

\* A GET of the id named by the Location of the POST before it has been
\* answered 200, the POST having created the second row.
C19_Witness ==
    \E p \in Procs :
        /\ req[p].method = "GET" /\ Answered(p) /\ resp[p].status = StatusOK
        /\ prev.method = "POST" /\ prev.status = StatusCreated
        /\ prev.id = req[p].id /\ prev.id = 2
        /\ resp[p].todo.Text = prev.todo.Text

\* C20: when the INSERT of a POST succeeded and its read-back returned an
\* error (no statement failing: the SELECT found no row, another request
\* having deleted it), repo.Create returns that error as it is, which is not
\* ErrNotFound, and no record; the POST is answered 500 "unexpected error",
\* not 404 and not 201.
ReadBackFailed(r) ==
    /\ r.method = "POST" /\ r.pc = "done" /\ r.svc = 1
    /\ r.stmts = 2 /\ r.rows = 1 /\ ~r.fault
    /\ r.err # ErrNil

C20_CreateReadBackMiss ==
    \A p \in Procs :
        ReadBackFailed(req[p]) =>
            /\ req[p].err = ErrNoRows
            /\ req[p].err # ErrNotFound
            /\ ~RowAt(req[p].lastId).live
            /\ resp[p].todo.nil
            /\ resp[p].status = StatusInternalServerError
            /\ resp[p].error = "unexpected error"
            /\ resp[p].status \notin {StatusNotFound, StatusCreated}

\* The row a POST inserted was deleted before its read-back, and the POST has
\* been answered 500.
C20_Witness ==
    \E p \in Procs :
        /\ ReadBackFailed(req[p])
        /\ req[p].lastId \in Ids /\ nextId > req[p].lastId
        /\ resp[p].status = StatusInternalServerError

\* C21 (as stated): when the request's deadline fires during a statement, the
\* request ends and what it reports differs from what a request of the same
\* operation reports for any other failed statement.
TimedOut(r) == r.failed > 0 /\ r.cause = ErrDeadlineExceeded

C21_TimeoutReportedDistinct ==
    \A p \in Procs :
        TimedOut(req[p]) =>
            /\ Answered(p)
            /\ resp[p] # handlerResponse(req[p].method, ErrDriver, NilTodo)

\* C21 (amended): when the request's deadline fires during a statement, the
\* statement is given up without effect, no further statement is issued, the
\* request ends, and the error the repository and the service return is the
\* deadline error, which is none of the other store errors; the response is
\* the same 500 "unexpected error" as for any other store failure.
C21_TimeoutSurfaced ==
    \A p \in Procs :
        LET r == req[p] IN
        TimedOut(r) =>
            /\ Answered(p) /\ r.stmts = r.failed
            /\ r.err = ErrDeadlineExceeded
            /\ r.err \notin {ErrNil, ErrDriver, ErrNoRows, ErrScan, ErrNotFound,
                             ErrInputInvalid, ErrMultipleRowsAffected}
            /\ (r.failed = 1 /\ r.method \in {"PUT", "PATCH", "DELETE"}) => RowAt(r.id) = r.pre
            /\ resp[p] = Response(StatusInternalServerError, "unexpected error", NilTodo)

\* The deadline fired during the DELETE of a stored row: the row is still
\* there and the request has been answered.
C21_Witness ==
    \E p \in Procs :
        /\ req[p].method = "DELETE" /\ TimedOut(req[p]) /\ Answered(p)
        /\ req[p].pre.live /\ RowAt(req[p].id).live
        /\ req[p].err = ErrDeadlineExceeded

\* C22: a request issues at most one INSERT, UPDATE or DELETE and at most two
\* statements in all (one for GET, the list and DELETE); once a statement of
\* it has failed the request has ended, that statement being its last, and it
\* has been answered with the one failure; no step of a request that has been
\* answered issues a statement or writes a response again.
C22_AtMostOnce ==
    \A p \in Procs :
        LET r == req[p] IN
        /\ r.muts <= 1 /\ r.stmts <= 2
        /\ r.method \in {"GET", "GET_ALL", "DELETE"} => r.stmts <= 1
        /\ r.method \in {"GET", "GET_ALL"} => r.muts = 0
        /\ r.failed > 0 =>
                /\ Answered(p) /\ r.stmts = r.failed
                /\ r.err = r.cause
                /\ resp[p].status = StatusInternalServerError

C22_AnsweredIsFinal ==
    [][\A p \in Procs :
            (req[p].pc = "done" /\ req'[p] # req[p]) =>
                /\ req'[p] = IdleReq /\ resp'[p] = NoResponse
                /\ store' = store]_vars

C22_NoRetry == []C22_AtMostOnce /\ C22_AnsweredIsFinal

\* The read-back of a PUT failed after its UPDATE had run: two statements, one
\* mutation, one failure answered.
C22_Witness ==
    \E p \in Procs :
        /\ req[p].method = "PUT" /\ Answered(p)
        /\ req[p].failed = 2 /\ req[p].stmts = 2 /\ req[p].muts = 1
        /\ resp[p].status = StatusInternalServerError

\* C23: two PUTs with both fields, in flight together for the same id, which
\* had a row when each of them arrived: once both are answered, both have
\* been answered 200, the row is still there, and its (text, completed) is the
\* pair of one of the two requests, never the text of one with the completed
\* of the other.
FullPut(r) == r.method = "PUT" /\ r.svc = 1 /\ r.pre.live
Pair(in) == <<in.Text, in.Completed>>

C23_ConcurrentPuts ==
    \A p, q \in Procs :
        (p # q /\ FullPut(req[p]) /\ FullPut(req[q]) /\ req[p].id = req[q].id
            /\ Answered(p) /\ Answered(q)) =>
                /\ resp[p].status = StatusOK /\ resp[q].status = StatusOK
                /\ RowAt(req[p].id).live
                /\ <<RowAt(req[p].id).text, RowAt(req[p].id).completed>>
                        \in {Pair(req[p].in), Pair(req[q].in)}

\* Two PUTs with different texts and different completed values have both
\* been answered, the first having read back what the second wrote.
C23_Witness ==
    \E p, q \in Procs :
        /\ p # q /\ FullPut(req[p]) /\ FullPut(req[q]) /\ req[p].id = req[q].id
        /\ Answered(p) /\ Answered(q)
        /\ req[p].in.Text # req[q].in.Text /\ req[p].in.Completed # req[q].in.Completed
        /\ resp[p].status = StatusOK /\ resp[q].status = StatusOK
        /\ resp[p].todo.Text = req[q].in.Text.v
        /\ RowAt(req[p].id).text = req[q].in.Text

\* C24: a GET, PUT, PATCH or DELETE of /todos/:id whose path id is no decimal
\* numeral in 0..2^32-1 (not a numeral, negative, or above 2^32-1) is answered
\* 400 "ID must be an integer" without a call of the service (a PUT or PATCH
\* being sent as JSON; otherwise it is answered 415, also without the
\* service); the id the service is called with is always the value of the
\* path's numeral, never the low bits of a wider one; and a request to id 0 is
\* never answered 200 or 204.
ById == {"GET", "PUT", "PATCH", "DELETE"}
JsonIfBody(r) == r.method \in {"PUT", "PATCH"} => isJson(r.ctype)

C24_PathId ==
    \A p \in Procs :
        LET r == req[p] IN
        r.method \in ById =>
            /\ (~r.path.digits \/ r.path.wide) =>
                    /\ Answered(p) /\ r.svc = 0 /\ r.stmts = 0
                    /\ JsonIfBody(r) =>
                            /\ resp[p].status = StatusBadRequest
                            /\ resp[p].error = "ID must be an integer"
            /\ r.svc = 1 => (r.path.digits /\ ~r.path.wide /\ r.id = r.path.val)
            /\ (r.path.digits /\ ~r.path.wide /\ r.path.val = 0 /\ Answered(p)) =>
                    resp[p].status \notin {StatusOK, StatusNoContent}

\* A PUT to the id 2^32 + 1 with a flawless JSON body has been answered 400
\* while row 1 is stored.
C24_Witness ==
    \E p \in Procs :
        /\ req[p].method = "PUT" /\ isJson(req[p].ctype) /\ Answered(p)
        /\ req[p].path = PathParam(TRUE, TRUE, 1) /\ req[p].body = FullBody
        /\ store[1].live
        /\ resp[p].status = StatusBadRequest /\ resp[p].error = "ID must be an integer"

\* C25: a POST, PUT or PATCH whose Content-Type is not application/json is
\* answered 415 "Content-Type must be application/json" without a call of the
\* service, whatever its path id and its body are (a path that does not
\* parse, a body that is no JSON, a null member); a GET or DELETE, which
\* carries no such content type, is never answered 415.
C25_ContentType ==
    \A p \in Procs :
        LET r == req[p] IN
        /\ (r.method \in BodyMethods /\ r.ctype # "application/json") =>
                /\ Answered(p) /\ r.svc = 0 /\ r.stmts = 0
                /\ resp[p].status = StatusUnsupportedMediaType
                /\ resp[p].error = "Content-Type must be application/json"
        /\ (r.method \in BodyMethods /\ r.ctype = "application/json" /\ Answered(p)) =>
                resp[p].status # StatusUnsupportedMediaType
        /\ (r.method \in {"GET", "GET_ALL", "DELETE"} /\ Answered(p)) =>
                /\ r.ctype = ""
                /\ resp[p].status # StatusUnsupportedMediaType

\* A PUT sent as text/plain whose path does not parse and whose body is no
\* JSON has been answered 415.
C25_Witness ==
    \E p \in Procs :
        /\ req[p].method = "PUT" /\ req[p].ctype = "text/plain" /\ Answered(p)
        /\ ParseUint(req[p].path).err /\ ~req[p].body.json
        /\ resp[p].status = StatusUnsupportedMediaType

\* C26: an id whose row has been deleted (an id the store assigned that has
\* no row) has nothing left in the table: from then on a GET, PUT, PATCH or
\* DELETE of it whose statements run without fault is answered 404, the list
\* answered by GET /todos holds exactly the records of the rows that are there,
\* none with that id, and the id never gets a row again.
Deleted(i) == i < nextId /\ ~store[i].live

C26_GoneAnswered ==
    /\ \A i \in Ids : Deleted(i) => store[i] = NoRow
    /\ \A p \in Procs :
        LET r == req[p] IN
        /\ (r.method \in ById /\ r.svc = 1 /\ r.id \in Ids /\ Deleted(r.id)
                /\ ~r.pre.live /\ Answered(p) /\ ~r.fault) =>
                /\ resp[p].status = StatusNotFound
                /\ resp[p].todo.nil
        /\ (r.method = "GET_ALL" /\ Answered(p) /\ resp[p].status = StatusOK) =>
                /\ \A t \in resp[p].list : t.ID \in Ids /\ ~Deleted(t.ID)
                /\ {t.ID : t \in resp[p].list} = LiveIds(store)

C26_GoneForGood ==
    [][\A i \in Ids : Deleted(i) => (~store'[i].live /\ i < nextId')]_vars

C26_NoSoftDelete == []C26_GoneAnswered /\ C26_GoneForGood

\* GET /todos has answered a list with the second row alone, the first
\* having been deleted.
C26_Witness ==
    \E p \in Procs :
        /\ req[p].method = "GET_ALL" /\ Answered(p) /\ resp[p].status = StatusOK
        /\ Deleted(1) /\ store[2].live
        /\ {t.ID : t \in resp[p].list} = {2}

\* C27 (as stated, for the fields present in the input): a PUT or PATCH
\* whose UPDATE changed a row and which is answered 200 carries the target id
\* and, for every field its input gives, the input's value, whatever other
\* requests ran between its UPDATE and its read-back.
Updated(p) ==
    /\ req[p].method \in {"PUT", "PATCH"} /\ Answered(p)
    /\ resp[p].status = StatusOK

ReadsBack(p) ==
    /\ req[p].method \in {"PUT", "PATCH"}
    /\ req[p].pc = "readback" /\ req'[p].pc = "done"

C27_ReadBackStep ==
    [][\A p \in Procs :
            ReadsBack(p) =>
                IF store[req[p].id].live
                THEN /\ resp'[p].status = StatusOK
                     /\ resp'[p].todo = Todo(req[p].id, store[req[p].id])
                     /\ store' = store
                ELSE resp'[p].status = StatusNotFound]_vars

C27_UpdatedAnswer ==
    \A p \in Procs :
        Updated(p) =>
            /\ ~resp[p].todo.nil
            /\ resp[p].todo.ID = req[p].id
            /\ req[p].muts = 1 /\ req[p].stmts = 2 /\ req[p].rows \in {0, 1}

Inserted(p) ==
    /\ req[p].method = "POST" /\ Answered(p)
    /\ req[p].muts = 1 /\ req[p].rows = 1 /\ req[p].lastId \in Ids

C28_CreateAtomic ==
    \A p \in Procs :
        Inserted(p) =>
            /\ resp[p].status = StatusCreated
            /\ ~resp[p].todo.nil
            /\ resp[p].todo.ID = req[p].lastId
            /\ resp[p].todo.Text = req[p].in.Text.v
            /\ resp[p].todo.Completed = req[p].in.Completed.v

\* C29: a PUT or PATCH that is answered 404 has changed no row: its UPDATE
\* statement, if it ran, reported zero rows affected, also when a DELETE of
\* the same id ran while the request was in flight.
C29_NotFoundChangedNothing ==
    \A p \in Procs :
        (req[p].method \in {"PUT", "PATCH"} /\ Answered(p) /\ req[p].svc = 1
            /\ resp[p].status = StatusNotFound) =>
                /\ req[p].rows = 0
                /\ req[p].err = ErrNotFound

\* C30: every step of a request touches at most the row of its target id: a
\* step of a PUT, PATCH or DELETE of id N leaves every row with another id as
\* it is and adds none, a step of a POST leaves every existing row as it is
\* and adds at most the row of the next id, and no step of a GET of one id or
\* of the list changes the table at all; nor does a request that was refused
\* before the service was called.
Acts(p) == req'[p] # req[p]
MethodOf(p) == IF req[p].pc = "idle" THEN req'[p].method ELSE req[p].method
TargetOf(p) == IF req[p].pc = "idle" THEN req'[p].id ELSE req[p].id

C30_Frame ==
    [][\A p \in Procs :
            Acts(p) =>
                /\ MethodOf(p) \in {"GET", "GET_ALL"} =>
                        store' = store /\ nextId' = nextId
                /\ MethodOf(p) \in {"PUT", "PATCH", "DELETE"} =>
                        /\ \A i \in Ids \ {TargetOf(p)} : store'[i] = store[i]
                        /\ nextId' = nextId
                /\ MethodOf(p) = "POST" =>
                        /\ \A i \in Ids : store[i].live => store'[i] = store[i]
                        /\ \A i \in Ids \ {nextId} : store'[i] = store[i]
                        /\ nextId' \in {nextId, nextId + 1}
                /\ (req[p].svc = 0 /\ req'[p].svc = 0) => store' = store]_vars

\* A DELETE has removed its row and been answered 204 while the row of
\* another id is still there.
C30_Witness ==
    \E p \in Procs :
        /\ req[p].method = "DELETE" /\ Answered(p)
        /\ resp[p].status = StatusNoContent
        /\ req[p].pre.live /\ ~RowAt(req[p].id).live
        /\ \E i \in Ids \ {req[p].id} : store[i].live

====
